---------------------------- MODULE Spec2Model ----------------------------
(***************************************************************************)
(* A model of the Fukushima plume simulator's particle-transport core:     *)
(*   - ReleasePhase / ReleaseManager / ParticleEngine3D                    *)
(*       (src/web/particleEngine.js)                                       *)
(*   - the phase editor of the control surface (src/web/app.js)            *)
(*   - StreamingHYCOMLoader_3D (src/unnamed/part_003, the file that        *)
(*       installs window.streamingHycomLoader3D)                           *)
(*   - StreamingEKELoader (src/web/streamingEKELoader.js)                  *)
(*                                                                         *)
(* Numbers.  JavaScript numbers are modelled exactly: an amount, a rate or *)
(* the fractional accumulator is a reduced rational <<n, d>> with d > 0.   *)
(* Simulation time is counted in ticks of 1/TicksPerDay day.               *)
(* A horizontal position is the grid cell it lies in, on one row of cells  *)
(* across the shore; a depth is a whole number of units, 1.0 km being      *)
(* MaxDepth units.                                                         *)
(***************************************************************************)
EXTENDS Integers, Sequences, FiniteSets, TLC

\* ------------------------------------------------------------------------
\* Bounds of the model
\* ------------------------------------------------------------------------
Capacity == 2          \* numParticles, the size of the particle pool
TicksPerDay == 2       \* resolution of simulation time
MaxDelta == 2          \* largest step, in ticks
MaxTicks == 4          \* the clock stops being advanced here
MaxPhases == 2         \* longest schedule built through addPhase
MaxCards == 2          \* most cards in the phase editor
MaxDay == 3            \* calendar days 0..MaxDay exist in the archives
MaxInFlight == 2       \* calls of releaseParticles (of updateParticles) in flight
MAX_ATTEMPTS == 2      \* releaseParticles' MAX_ATTEMPTS (1000), scaled down
MaxCell == 2           \* grid cells 0..MaxCell across the shore
MaxDepth == 2          \* the clamp's 1.0 km, in depth units
MaxFetches == 2        \* most fetches of one day's file in flight
MaxWaiters == 2        \* most callers awaiting one day's load
FloorTicks == 2        \* ticks of evaporation that take the unit mass below 0.001

\* ------------------------------------------------------------------------
\* Exact arithmetic on rationals <<n, d>>, d > 0, reduced
\* ------------------------------------------------------------------------
Abs(x) == IF x < 0 THEN -x ELSE x

RECURSIVE GCD(_, _)
GCD(a, b) == IF b = 0 THEN a ELSE GCD(b, a % b)

RNorm(n, d) ==
    LET g == GCD(Abs(n), d)
    IN  IF n = 0 THEN <<0, 1>> ELSE <<n \div g, d \div g>>

RInt(k) == <<k, 1>>
RAdd(a, b) ==
    LET g == GCD(a[2], b[2])
        l == (a[2] \div g) * b[2]
    IN  RNorm(a[1] * (l \div a[2]) + b[1] * (l \div b[2]), l)
RSub(a, b) == RAdd(a, <<-b[1], b[2]>>)
RMul(a, b) ==
    LET g1 == GCD(Abs(a[1]), b[2])
        g2 == GCD(Abs(b[1]), a[2])
    IN  RNorm((a[1] \div g1) * (b[1] \div g2), (a[2] \div g2) * (b[2] \div g1))
\* a / b for b > 0
RDiv(a, b) == RMul(a, <<b[2], b[1]>>)
RLess(a, b) == a[1] * b[2] < b[1] * a[2]
\* Math.floor
RFloor(a) == a[1] \div a[2]

\* ------------------------------------------------------------------------
\* State
\* ------------------------------------------------------------------------
VARIABLES
    \* ReleaseManager and the engine's calibration
    tracerId,          \* engine.tracerId
    phases,            \* releaseManager.phases, a sequence of ReleasePhase
    upp,               \* engine.UNITS_PER_PARTICLE
    cards,             \* the phase editor's .phase-card elements, in DOM order
    lastOp,            \* the last operation on the schedule or the run control
    \* StreamingHYCOMLoader_3D
    hyLoaded,          \* loadedDays: the keys of the Map, in insertion order
    hyLoading,         \* loadingPromises: the keys
    hyActive,          \* activeDayKey
    hyReturned,        \* the day of the bundle loadDayByDate returned last
    hyFetches,         \* per day, the calls of _loadDayByDate3D in flight
    hyWaiters,         \* per day, the callers awaiting the load in loadingPromises
    hyLast,            \* the loader's last operation, and what its callers got
    \* StreamingEKELoader
    ekeLoaded,         \* loadedDays
    ekeLoading,        \* loadingPromises
    ekeActive,         \* activeDate
    ekeReturned,       \* the day of the bundle loadDay returned last
    ekeFetches,        \* per day, the calls of _loadDayData in flight
    ekeWaiters,        \* per day, the callers awaiting the load in loadingPromises
    ekeLast,           \* the loader's last operation, and what its callers got
    \* ParticleEngine3D
    isRunning,         \* engine.isRunning
    simTicks,          \* stats.simulationDays, in ticks
    simulationStartTime,   \* engine.simulationStartTime, a calendar date
                           \* counted in days from 2011-03-01 (UTC)
    currentSimulationTime, \* engine.currentSimulationTime, in ticks from
                           \* 2011-03-01T00:00:00Z
    particleFraction,  \* engine.particleFraction, the fractional accumulator
    totalReleased,     \* stats.totalReleased
    active,            \* particlePool[i].active
    requested,         \* sum of the counts handed to releaseParticles since start
    last,              \* the last step's release: accumulator before, increment,
                       \* count requested, inactive slots, count activated
    relCalls,          \* the calls of releaseParticles in flight, each at an await
    updCalls,          \* the calls of updateParticles in flight, each at an await
    REFERENCE_LON,     \* engine.REFERENCE_LON, as a grid cell
    cell,              \* particlePool[i].x, in cells from REFERENCE_LON
    depth,             \* particlePool[i].depth, in depth units
    particlesOnLand,   \* stats.particlesOnLand
    onLand,            \* the slots counted in stats.particlesOnLand this step
    rawDepth,          \* the depth applyVerticalMotion computed last, before
                       \* its clamp, and the slot it was for
    queue,             \* updateParticles: the particles of its snapshot still
                       \* to be updated, in loop order
    rk4Enabled,        \* engine.rk4Enabled && rk4Settings.enabled
    age,               \* particlePool[i].age, in ticks
    releaseDay,        \* particlePool[i].releaseDay, in ticks; null until set
    mass,              \* particlePool[i].mass, as the number of ticks of
                       \* evaporation that have reduced it from the unit
    deltaDays,         \* updateParticles: its deltaDays, in ticks
    lastLand           \* checkLandInteraction, the last time it found land:
                       \* the slot, the cell it looked at, and what
                       \* findNearestOceanCell returned

schedVars == <<tracerId, phases, upp, cards, lastOp>>
hyVars == <<hyLoaded, hyLoading, hyActive, hyReturned, hyFetches, hyWaiters, hyLast>>
ekeVars == <<ekeLoaded, ekeLoading, ekeActive, ekeReturned, ekeFetches, ekeWaiters,
            ekeLast>>
clockVars == <<simulationStartTime, currentSimulationTime>>
relVars == <<isRunning, simTicks, particleFraction, totalReleased, active, requested, last,
            clockVars>>
asyncVars == <<relCalls, updCalls>>
motionVars == <<REFERENCE_LON, cell, depth, particlesOnLand, onLand, rawDepth, queue, rk4Enabled,
               age, releaseDay, mass, deltaDays, lastLand>>
engVars == <<relVars, asyncVars, motionVars>>
vars == <<schedVars, hyVars, ekeVars, engVars>>
nonSchedVars == <<hyVars, ekeVars, engVars>>
nonHyVars == <<schedVars, ekeVars, engVars>>
nonEkeVars == <<schedVars, hyVars, engVars>>

\* ------------------------------------------------------------------------
\* TracerLibrary, ReleasePhase, ReleaseManager
\* ------------------------------------------------------------------------
Tracers == {"cs137", "lightOil"}
TracerType(id) == IF id = "lightOil" THEN "hydrocarbon" ELSE "radionuclide"
\* TracerLibrary[id].defaultTotal, in the tracer's own unit (Bq, tons)
DefaultTotalGBq == 16200000     \* cs137.defaultTotal / 1e9
DefaultTotalTons == 10000       \* lightOil.defaultTotal
DefaultEnd == 30                \* end day of the default phase and of a new card
CardTotal == 1000               \* total of a new phase card

\* The units of the multiplier table that the model gives to phases.
Units == {"GBq", "TBq", "PBq", "kg", "tons"}
\* The <option>s of the phase editor's unit <select>.
UIUnits == {"GBq", "TBq", "PBq"}

ReleasePhase(s, e, t, u) == [start |-> s, end |-> e, total |-> t, unit |-> u]

\* ReleaseManager.convertToBaseUnit(1, fromUnit): conversions[fromUnit] || 1
Conversions(u) ==
    CASE u = "GBq" -> 1
      [] u = "TBq" -> 1000
      [] u = "PBq" -> 1000000
      [] u = "kg" -> 1
      [] u = "tons" -> 1000
      [] OTHER -> 1

\* ReleaseManager.addDefaultPhase
addDefaultPhase(id) ==
    IF TracerType(id) = "radionuclide"
    THEN <<ReleasePhase(0, DefaultEnd, DefaultTotalGBq, "GBq")>>
    ELSE <<ReleasePhase(0, DefaultEnd, DefaultTotalTons, "tons")>>

\* ReleaseManager.getTotalRelease
RECURSIVE getTotalRelease(_)
getTotalRelease(ps) ==
    IF ps = <<>> THEN 0
    ELSE Head(ps).total * Conversions(Head(ps).unit) + getTotalRelease(Tail(ps))

\* ParticleEngine3D.calculateParticleCalibration, with getParticleActivity:
\* the new UNITS_PER_PARTICLE for a schedule
calculateParticleCalibration_NoDivide(ps) ==
    IF getTotalRelease(ps) > 0 THEN RInt(getTotalRelease(ps)) ELSE RInt(1)
calculateParticleCalibration(ps) ==
    IF getTotalRelease(ps) > 0 THEN RNorm(getTotalRelease(ps), Capacity) ELSE RInt(1)

\* Array.prototype.sort((a, b) => a.start - b.start): a stable sort
RECURSIVE InsertByStart(_, _)
InsertByStart(p, ps) ==
    IF ps = <<>> THEN <<p>>
    ELSE IF p.start < Head(ps).start THEN <<p>> \o ps
    ELSE <<Head(ps)>> \o InsertByStart(p, Tail(ps))

RECURSIVE sortPhases(_)
sortPhases(ps) ==
    IF ps = <<>> THEN <<>>
    ELSE LET n == Len(ps)
         IN  InsertByStart(ps[n], sortPhases(SubSeq(ps, 1, n - 1)))

RemoveAt(seq, i) == SubSeq(seq, 1, i - 1) \o SubSeq(seq, i + 1, Len(seq))

\* The values the model gives to a phase's fields: through the manager's
\* interface, and typed into a card of the phase editor.
StartChoices == {0, 1}
EndChoices == {1, 2}
TotalChoices == {0, 2}
ApiUnits == {"GBq", "tons"}

\* ReleaseManager.addPhase: push, then sortPhases
AddPhase(s, e, t, u) ==
    /\ Len(phases) < MaxPhases
    /\ phases' = sortPhases(Append(phases, ReleasePhase(s, e, t, u)))
    /\ lastOp' = "addPhase"
    /\ UNCHANGED <<tracerId, upp, cards, nonSchedVars>>

\* ReleaseManager.removePhase(index), 0 <= index < length
RemovePhase(i) ==
    /\ i \in 1..Len(phases)
    /\ phases' = IF Len(phases) > 1 THEN RemoveAt(phases, i) ELSE phases
    /\ lastOp' = "removePhase"
    /\ UNCHANGED <<tracerId, upp, cards, nonSchedVars>>

\* ParticleEngine3D.setReleasePhases
SetReleasePhases(ps) ==
    /\ phases' = ps
    /\ upp' = calculateParticleCalibration(ps)
    /\ lastOp' = "setReleasePhases"
    /\ UNCHANGED <<tracerId, cards, nonSchedVars>>

\* ParticleEngine3D.setTracer
SetTracer(id) ==
    /\ tracerId' = id
    /\ upp' = calculateParticleCalibration(phases)
    /\ lastOp' = "setTracer"
    /\ UNCHANGED <<phases, cards, nonSchedVars>>

\* app.js, the tracer <select>'s change handler: sets engine.tracerId and
\* engine.tracer, then engine.calculateParticleCalibration()
SelectTracer(id) ==
    /\ tracerId' = id
    /\ upp' = calculateParticleCalibration(phases)
    /\ lastOp' = "selectTracer"
    /\ UNCHANGED <<phases, cards, nonSchedVars>>

\* ------------------------------------------------------------------------
\* The phase editor (app.js)
\* ------------------------------------------------------------------------
\* createPhaseElement(): the values a new card shows
NewCard == ReleasePhase(0, DefaultEnd, CardTotal, "GBq")

\* The values typed into a card
CardStarts == {0, 1}
CardEnds == {1, DefaultEnd}
CardTotals == {0, CardTotal}
CardUnits == {"GBq", "TBq"}

\* syncPhasesToEngine: one ReleasePhase per card, in DOM order; the engine's
\* phases are replaced and UNITS_PER_PARTICLE is left as it is.
syncPhasesToEngine(cs) ==
    /\ phases' = cs
    /\ upp' = upp

\* an input event on one field of one card
EditCard(i, f, v) ==
    /\ i \in 1..Len(cards)
    /\ cards' = [cards EXCEPT ![i] = [@ EXCEPT ![f] = v]]
    /\ syncPhasesToEngine(cards')
    /\ lastOp' = "sync"
    /\ UNCHANGED <<tracerId, nonSchedVars>>

\* the add-phase button
AddCard ==
    /\ Len(cards) < MaxCards
    /\ cards' = Append(cards, NewCard)
    /\ syncPhasesToEngine(cards')
    /\ lastOp' = "sync"
    /\ UNCHANGED <<tracerId, nonSchedVars>>

\* a card's remove button (refused for the last card)
RemoveCard(i) ==
    /\ i \in 1..Len(cards)
    /\ Len(cards) > 1
    /\ cards' = RemoveAt(cards, i)
    /\ syncPhasesToEngine(cards')
    /\ lastOp' = "sync"
    /\ UNCHANGED <<tracerId, nonSchedVars>>

\* the initial sync, 500 ms after setupPhaseEditor
InitialSync ==
    /\ cards' = cards
    /\ syncPhasesToEngine(cards)
    /\ lastOp' = "sync"
    /\ UNCHANGED <<tracerId, nonSchedVars>>

\* new ParticleEngine3D(Capacity, id) and setupPhaseEditor
SchedInit ==
    /\ tracerId \in Tracers
    /\ phases = addDefaultPhase(tracerId)
    /\ upp = calculateParticleCalibration(phases)
    /\ cards = <<NewCard>>
    /\ lastOp = "new"

\* ------------------------------------------------------------------------
\* The day caches of the two loaders
\* ------------------------------------------------------------------------
\* A day is named by its index in the archive; null is no day.
null == -1
Days == 0..MaxDay
\* the default of setMaxDaysInMemory's and manageMemory's maxDays
DefaultMaxDays == 3

Range(seq) == {seq[i] : i \in 1..Len(seq)}

\* Map.prototype.set(key, _) on the keys: a new key goes last
MapSet(loaded, d) == IF d \in Range(loaded) THEN loaded ELSE Append(loaded, d)
\* Map.prototype.delete(key) on the keys
MapDelete(loaded, d) == SelectSeq(loaded, LAMBDA k : k # d)

\* setMaxDaysInMemory / manageMemory: when more than maxDays are resident,
\* delete the first size - maxDays keys, except the active one
KeepNewest(loaded, activeKey, maxDays) ==
    IF Len(loaded) > maxDays
    THEN LET n == Len(loaded) - maxDays
         IN  SelectSeq(SubSeq(loaded, 1, n), LAMBDA k : k = activeKey)
                 \o SubSeq(loaded, n + 1, Len(loaded))
    ELSE loaded

\* loadDayByDate / loadDay: a key added to loadingPromises is a fetch
\* started, a key deleted from it is a fetch that has ended
FetchesAfter(fetches, loading, loadingAfter) ==
    [d \in Days |-> fetches[d]
                     + (IF d \in loadingAfter \ loading THEN 1 ELSE 0)
                     - (IF d \in loading \ loadingAfter THEN 1 ELSE 0)]

\* a loader's operation on a day: the active key before it, the callers
\* that were awaiting the load it settled, and those of them that got the
\* error
LoadOp(op, d, act, w, e) ==
    [op |-> op, day |-> d, active |-> act, waiters |-> w, errors |-> e]
NoLoadOp == LoadOp("none", null, null, 0, 0)

\* loadDayByDate / loadDay on a day: the awaiting callers afterwards.  A call
\* that joins a load in flight awaits with the others, a call that starts
\* one is the first to await, a call for a resident day awaits nothing.
WaitersAfter(waiters, loading, loaded, d) ==
    IF d \in loading THEN [waiters EXCEPT ![d] = @ + 1]
    ELSE IF d \in Range(loaded) THEN waiters
    ELSE [waiters EXCEPT ![d] = 1]

\* loadDayByDate / loadDay, the finally after a failed await:
\* loadingPromises.delete(dateKey)
LoadingAfterFailure_NoDelete(loading, d) == loading
LoadingAfterFailure(loading, d) == loading \ {d}

\* StreamingHYCOMLoader_3D after init(): loadDayByOffset(0) fetches day 0
\* through _loadDayByDate3D and stores it nowhere
HycomInit ==
    /\ hyLoaded = <<>>
    /\ hyLoading = {}
    /\ hyActive = null
    /\ hyReturned = null
    /\ hyFetches = [d \in Days |-> 0]
    /\ hyWaiters = [d \in Days |-> 0]
    /\ hyLast = NoLoadOp

\* loadDayByDate, up to its await: joins a load in flight, or returns the
\* resident bundle, or starts a load
HyLoadDayByDate(d) ==
    /\ hyWaiters[d] < MaxWaiters
    /\ hyLoading' = IF d \in hyLoading \/ d \in Range(hyLoaded)
                    THEN hyLoading ELSE hyLoading \cup {d}
    /\ hyReturned' = IF d \notin hyLoading /\ d \in Range(hyLoaded)
                     THEN d ELSE hyReturned
    /\ hyFetches' = FetchesAfter(hyFetches, hyLoading, hyLoading')
    /\ hyWaiters' = WaitersAfter(hyWaiters, hyLoading, hyLoaded, d)
    /\ hyLast' = LoadOp("request", d, hyActive, 0, 0)
    /\ UNCHANGED <<hyLoaded, hyActive, nonHyVars>>

\* loadDayByDate after its await: the fetch has succeeded
HyLoadComplete(d) ==
    /\ d \in hyLoading
    /\ hyLoaded' = MapSet(hyLoaded, d)
    /\ hyActive' = d
    /\ hyLoading' = hyLoading \ {d}
    /\ hyReturned' = d
    /\ hyFetches' = FetchesAfter(hyFetches, hyLoading, hyLoading')
    /\ hyWaiters' = [hyWaiters EXCEPT ![d] = 0]
    /\ hyLast' = LoadOp("loaded", d, hyActive, hyWaiters[d], 0)
    /\ UNCHANGED nonHyVars

\* loadDayByDate after its await: the fetch has failed; the rejection goes
\* to every caller awaiting the promise
HyLoadRejected(d) ==
    /\ d \in hyLoading
    /\ hyLoading' = LoadingAfterFailure(hyLoading, d)
    /\ hyFetches' = [hyFetches EXCEPT ![d] = @ - 1]
    /\ hyWaiters' = [hyWaiters EXCEPT ![d] = 0]
    /\ hyLast' = LoadOp("failed", d, hyActive, hyWaiters[d], hyWaiters[d])
    /\ UNCHANGED <<hyLoaded, hyActive, hyReturned>>
HyLoadFail(d) == HyLoadRejected(d) /\ UNCHANGED nonHyVars

\* loadDayByOffset(o), as init() of the loader and init() of the engine call
\* it: _loadDayByDate3D for the day at offset o, whatever is resident or in
\* flight
HyLoadDayByOffset(o) ==
    /\ hyFetches[o] < MaxFetches
    /\ hyFetches' = [hyFetches EXCEPT ![o] = @ + 1]
    /\ hyLast' = NoLoadOp
    /\ UNCHANGED <<hyLoaded, hyLoading, hyActive, hyReturned, hyWaiters, nonHyVars>>

\* the fetch of a loadDayByOffset ends; its bundle or its error goes to the
\* caller alone
HyOffsetFetchEnds(o) ==
    /\ hyFetches[o] > (IF o \in hyLoading THEN 1 ELSE 0)
    /\ hyFetches' = [hyFetches EXCEPT ![o] = @ - 1]
    /\ hyLast' = NoLoadOp
    /\ UNCHANGED <<hyLoaded, hyLoading, hyActive, hyReturned, hyWaiters, nonHyVars>>

\* preloadAdjacentDays(simulationDay): loadDayByDate for the days
\* simulationDay - 1, simulationDay, simulationDay + 1 that exist, in order
HyPreloadAdjacentDays(sd) ==
    LET targets == {sd - 1, sd, sd + 1} \cap Days
        hits == {t \in targets : t \notin hyLoading /\ t \in Range(hyLoaded)}
        misses == {t \in targets : t \notin hyLoading /\ t \notin Range(hyLoaded)}
    IN  /\ \A t \in targets : hyWaiters[t] < MaxWaiters
        /\ hyLoading' = hyLoading \cup misses
        /\ hyReturned' = IF hits = {} THEN hyReturned
                         ELSE CHOOSE t \in hits : \A o \in hits : o <= t
        /\ hyFetches' = FetchesAfter(hyFetches, hyLoading, hyLoading')
        /\ hyWaiters' = [t \in Days |->
                            IF t \in targets
                            THEN WaitersAfter(hyWaiters, hyLoading, hyLoaded, t)[t]
                            ELSE hyWaiters[t]]
        /\ hyLast' = LoadOp("preload", sd, hyActive, 0, 0)
        /\ UNCHANGED <<hyLoaded, hyActive, nonHyVars>>

HySetMaxDaysInMemory(maxDays) ==
    /\ hyLoaded' = KeepNewest(hyLoaded, hyActive, maxDays)
    /\ hyLoaded' # hyLoaded
    /\ hyLast' = NoLoadOp
    /\ UNCHANGED <<hyLoading, hyActive, hyReturned, hyFetches, hyWaiters, nonHyVars>>

HyUnloadDay(d) ==
    /\ d \in Range(hyLoaded)
    /\ d # hyActive
    /\ hyLoaded' = MapDelete(hyLoaded, d)
    /\ hyLast' = NoLoadOp
    /\ UNCHANGED <<hyLoading, hyActive, hyReturned, hyFetches, hyWaiters, nonHyVars>>

HycomNext ==
    \/ \E d \in Days : HyLoadDayByDate(d)
    \/ \E d \in Days : HyLoadComplete(d)
    \/ \E d \in Days : HyLoadFail(d)
    \/ HyLoadDayByOffset(0)
    \/ HyOffsetFetchEnds(0)
    \/ \E sd \in Days : HyPreloadAdjacentDays(sd)
    \/ HySetMaxDaysInMemory(DefaultMaxDays)
    \/ \E d \in Days : HyUnloadDay(d)

\* StreamingEKELoader after init(): loadDay(metadata.dates[0])
EkeInit ==
    /\ ekeLoaded = <<0>>
    /\ ekeLoading = {}
    /\ ekeActive = 0
    /\ ekeReturned = 0
    /\ ekeFetches = [d \in Days |-> 0]
    /\ ekeWaiters = [d \in Days |-> 0]
    /\ ekeLast = NoLoadOp

\* loadDay, up to its await
EkeLoadDay(d) ==
    /\ ekeWaiters[d] < MaxWaiters
    /\ ekeLoading' = IF d \in ekeLoading \/ d \in Range(ekeLoaded)
                     THEN ekeLoading ELSE ekeLoading \cup {d}
    /\ ekeReturned' = IF d \notin ekeLoading /\ d \in Range(ekeLoaded)
                      THEN d ELSE ekeReturned
    /\ ekeFetches' = FetchesAfter(ekeFetches, ekeLoading, ekeLoading')
    /\ ekeWaiters' = WaitersAfter(ekeWaiters, ekeLoading, ekeLoaded, d)
    /\ ekeLast' = LoadOp("request", d, ekeActive, 0, 0)
    /\ UNCHANGED <<ekeLoaded, ekeActive, nonEkeVars>>

\* loadDay after its await, the fetch having succeeded: set, make active,
\* manageMemory()
EkeLoadComplete(d) ==
    /\ d \in ekeLoading
    /\ ekeLoaded' = KeepNewest(MapSet(ekeLoaded, d), d, DefaultMaxDays)
    /\ ekeActive' = d
    /\ ekeLoading' = ekeLoading \ {d}
    /\ ekeReturned' = d
    /\ ekeFetches' = FetchesAfter(ekeFetches, ekeLoading, ekeLoading')
    /\ ekeWaiters' = [ekeWaiters EXCEPT ![d] = 0]
    /\ ekeLast' = LoadOp("loaded", d, ekeActive, ekeWaiters[d], 0)
    /\ UNCHANGED nonEkeVars

\* loadDay after its await, the fetch having failed; the rejection goes to
\* every caller awaiting the promise
EkeLoadFail(d) ==
    /\ d \in ekeLoading
    /\ ekeLoading' = LoadingAfterFailure(ekeLoading, d)
    /\ ekeFetches' = [ekeFetches EXCEPT ![d] = @ - 1]
    /\ ekeWaiters' = [ekeWaiters EXCEPT ![d] = 0]
    /\ ekeLast' = LoadOp("failed", d, ekeActive, ekeWaiters[d], ekeWaiters[d])
    /\ UNCHANGED <<ekeLoaded, ekeActive, ekeReturned, nonEkeVars>>

EkeManageMemory(maxDays) ==
    /\ ekeLoaded' = KeepNewest(ekeLoaded, ekeActive, maxDays)
    /\ ekeLoaded' # ekeLoaded
    /\ ekeLast' = NoLoadOp
    /\ UNCHANGED <<ekeLoading, ekeActive, ekeReturned, ekeFetches, ekeWaiters,
                   nonEkeVars>>

EkeUnloadDay(d) ==
    /\ d \in Range(ekeLoaded)
    /\ d # ekeActive
    /\ ekeLoaded' = MapDelete(ekeLoaded, d)
    /\ ekeLast' = NoLoadOp
    /\ UNCHANGED <<ekeLoading, ekeActive, ekeReturned, ekeFetches, ekeWaiters,
                   nonEkeVars>>

\* the sizes handed to manageMemory
MaxDaysChoices == {1, 2, DefaultMaxDays}

EkeNext ==
    \/ \E d \in Days : EkeLoadDay(d)
    \/ \E d \in Days : EkeLoadComplete(d)
    \/ \E d \in Days : EkeLoadFail(d)
    \/ \E m \in MaxDaysChoices : EkeManageMemory(m)
    \/ \E d \in Days : EkeUnloadDay(d)

\* ------------------------------------------------------------------------
\* ParticleEngine3D: the pool, the clock and the continuous release
\* ------------------------------------------------------------------------
Slots == 1..Capacity
\* the inactive slots, in pool order
RECURSIVE InactiveFrom(_, _)
InactiveFrom(act, i) ==
    IF i > Capacity THEN <<>>
    ELSE (IF act[i] THEN <<>> ELSE <<i>>) \o InactiveFrom(act, i + 1)
Min(a, b) == IF a < b THEN a ELSE b

\* the constructor's pool, stats and flags
\* new Date('2011-03-11T00:00:00Z'), in days from 2011-03-01
SimulationStartDate == 10
\* new Date(date).getTime(), in ticks
getTime(date) == date * TicksPerDay

EngineInit ==
    /\ isRunning = FALSE
    /\ simTicks = 0
    /\ simulationStartTime = SimulationStartDate
    /\ currentSimulationTime = getTime(SimulationStartDate)
    /\ particleFraction = RInt(0)
    /\ totalReleased = 0
    /\ active = [i \in Slots |-> FALSE]
    /\ requested = 0
    /\ last = [accBefore |-> RInt(0), inc |-> RInt(0), whole |-> 0,
               free |-> Capacity, released |-> 0]
    /\ relCalls = <<>>
    /\ updCalls = <<>>
    /\ REFERENCE_LON = 0
    /\ cell = [i \in Slots |-> 0]
    /\ depth = [i \in Slots |-> 0]
    /\ particlesOnLand = 0
    /\ onLand = {}
    /\ rawDepth = [slot |-> 0, raw |-> 0]
    /\ queue = <<>>
    /\ rk4Enabled = FALSE
    /\ age = [i \in Slots |-> 0]
    /\ releaseDay = [i \in Slots |-> -1]
    /\ mass = [i \in Slots |-> 0]
    /\ deltaDays = 0
    /\ lastLand = [slot |-> 0, x |-> 0, oceanCell |-> -1]

\* ReleasePhase.getRate, for end > start
getRate(p) == RNorm(p.total, p.end - p.start)

\* executeContinuousRelease: the first phase with start <= day <= end
RECURSIVE FindActivePhase(_, _)
FindActivePhase(ps, t) ==
    IF ps = <<>> THEN <<>>
    ELSE IF t >= Head(ps).start * TicksPerDay /\ t <= Head(ps).end * TicksPerDay
         THEN <<Head(ps)>>
         ELSE FindActivePhase(Tail(ps), t)

\* executeContinuousRelease: the rate in base units; only PBq and TBq are
\* converted
rateInBase(p) ==
    RMul(getRate(p), RInt(IF p.unit = "PBq" THEN 1000000
                          ELSE IF p.unit = "TBq" THEN 1000 ELSE 1))

\* executeContinuousRelease: particlesPerDay * deltaDays, dt in ticks
particlesThisStep(ps, u, t, dt) ==
    LET a == FindActivePhase(ps, t)
    IN  IF a = <<>> THEN RInt(0)
        ELSE RMul(RDiv(rateInBase(a[1]), u), RNorm(dt, TicksPerDay))

\* executeContinuousRelease: the accumulator after a request of whole >= 1
\* particles of which releaseParticles activates released
particleFractionAfter_KeepUnreleased(sum, whole, released) ==
    RSub(sum, RInt(released))
particleFractionAfter(sum, whole, released) ==
    RSub(sum, RInt(whole))

\* startSimulation
StartSimulation ==
    /\ ~isRunning
    /\ isRunning' = TRUE
    /\ simTicks' = IF totalReleased = 0 THEN 0 ELSE simTicks
    /\ currentSimulationTime' = IF totalReleased = 0 THEN getTime(simulationStartTime)
                                ELSE currentSimulationTime
    /\ lastOp' = "start"
    /\ requested' = 0
    /\ UNCHANGED <<simulationStartTime,
                   tracerId, phases, upp, cards, particleFraction, totalReleased,
                   active, last, asyncVars, motionVars, hyVars, ekeVars>>

\* update() up to updateParticles, with the day's data resident, so that
\* releaseParticles runs to its end within the step: the clock advances by
\* dt ticks, the accumulator takes the step's particles, and
\* releaseParticles(whole) activates the first k inactive slots; k falls
\* short of min(whole, inactive slots) when a slot exceeds MAX_ATTEMPTS, and
\* then the early return leaves stats.totalReleased as it was.
ReleaseStep(dt, k) ==
    /\ isRunning
    /\ simTicks + dt <= MaxTicks
    /\ simTicks' = simTicks + dt
    /\ currentSimulationTime' = currentSimulationTime + dt
    /\ LET inc == particlesThisStep(phases, upp, simTicks', dt)
           sum == RAdd(particleFraction, inc)
           whole == RFloor(sum)
           free == InactiveFrom(active, 1)
           n == Min(whole, Len(free))
       IN  IF whole >= 1
           THEN /\ k \in 0..n
                /\ particleFraction' = particleFractionAfter(sum, whole, k)
                /\ active' = [i \in Slots |->
                                 active[i] \/ \E j \in 1..k : free[j] = i]
                /\ totalReleased' = IF k = n THEN totalReleased + k ELSE totalReleased
                /\ requested' = requested + whole
                /\ last' = [accBefore |-> particleFraction, inc |-> inc,
                            whole |-> whole, free |-> Len(free), released |-> k]
           ELSE /\ k = 0
                /\ particleFraction' = sum
                /\ last' = [accBefore |-> particleFraction, inc |-> inc,
                            whole |-> 0, free |-> Len(free), released |-> 0]
                /\ UNCHANGED <<active, totalReleased, requested>>
    /\ UNCHANGED <<schedVars, hyVars, ekeVars, isRunning, asyncVars, simulationStartTime>>

\* update() as far as the release is concerned: the particles stay where
\* they are
UpdateResident(dt, k) ==
    /\ ReleaseStep(dt, k)
    /\ UNCHANGED motionVars

\* the schedules handed to setReleasePhases before a run: one phase
ReleaseLists ==
    {<<ReleasePhase(se[1], se[2], t, u)>> :
        se \in {<<0, 1>>, <<0, 2>>, <<1, 2>>}, t \in {1, 4}, u \in Units}

\* A run with resident data: the schedule is set, or edited in the phase
\* editor, before the start; then the simulation is stepped.
ReleaseNext ==
    \/ \E ps \in ReleaseLists : ~isRunning /\ SetReleasePhases(ps)
    \/ \E v \in CardEnds : ~isRunning /\ EditCard(1, "end", v)
    \/ StartSimulation
    \/ \E dt \in 1..MaxDelta, k \in 0..Capacity : UpdateResident(dt, k)

ReleaseInit == SchedInit /\ tracerId = "cs137" /\ HycomInit /\ EkeInit /\ EngineInit
SpecRelease == ReleaseInit /\ [][ReleaseNext]_vars

\* ------------------------------------------------------------------------
\* ParticleEngine3D under the animation loop: steps, awaits and day loads
\*
\* A call of releaseParticles or updateParticles runs until it awaits a
\* lookup of the 3-D loader.  An await on a resident day is resumed before
\* the event loop takes the next animation frame, click or fetch
\* completion; an await on a day being fetched is resumed after the fetch.
\* ------------------------------------------------------------------------
\* StreamingHYCOMLoader_3D.simulationDayToDate: the day of a clock value
simulationDayToDate(t) == t \div TicksPerDay

Resident(d) == d \in Range(hyLoaded)
\* an await that can be resumed: the day is resident, or its load was
\* rejected and the accessor's catch has the error
Runnable(call) == call.failed \/ Resident(call.wait)
NoRunnable ==
    /\ \A i \in 1..Len(relCalls) : ~Runnable(relCalls[i])
    /\ \A j \in 1..Len(updCalls) : ~Runnable(updCalls[j])

\* loadDayByDate, as called by a lookup: a fetch starts unless the day is
\* resident or being fetched
LoadingAfterLookup(d) ==
    IF Resident(d) \/ d \in hyLoading THEN hyLoading ELSE hyLoading \cup {d}

\* loadDayByDate, as called by n lookups in a row: the callers awaiting
WaitersAfterLookups(d, n) ==
    IF Resident(d) THEN hyWaiters ELSE [hyWaiters EXCEPT ![d] = @ + n]

\* releaseParticles: the next slot the for-loop stops at, after slot p
NextInactive(act, p) ==
    LET later == {q \in Slots : q > p /\ ~act[q]}
    IN  IF later = {} THEN 0 ELSE CHOOSE q \in later : \A r \in later : q <= r

\* the schedule of a run under the animation loop: Capacity particles in
\* the first day
EngineSchedule == <<ReleasePhase(0, 1, 2 * Capacity, "GBq")>>

\* new ParticleEngine3D, setReleasePhases(EngineSchedule), init()
Init ==
    /\ tracerId = "cs137"
    /\ phases = EngineSchedule
    /\ upp = calculateParticleCalibration(EngineSchedule)
    /\ cards = <<NewCard>>
    /\ lastOp = "setReleasePhases"
    /\ HycomInit
    /\ EkeInit
    /\ EngineInit

\* animate(): engine.update(), not awaited.  update() advances the clock;
\* executeContinuousRelease calls releaseParticles(whole), not awaited,
\* which runs up to its first isOcean; updateParticles takes its snapshot
\* of the active particles and runs up to getVelocitiesForGroup.
Tick(dt) ==
    /\ isRunning
    /\ NoRunnable
    /\ simTicks + dt <= MaxTicks
    /\ Len(relCalls) < MaxInFlight
    /\ Len(updCalls) < MaxInFlight
    /\ simTicks' = simTicks + dt
    /\ currentSimulationTime' = currentSimulationTime + dt
    /\ LET d == simulationDayToDate(simTicks')
           inc == particlesThisStep(phases, upp, simTicks', dt)
           sum == RAdd(particleFraction, inc)
           whole == RFloor(sum)
           first == NextInactive(active, 0)
           snapshot == {i \in Slots : active[i]}
           releasing == whole >= 1 /\ first # 0
           updating == snapshot # {}
       IN  /\ particleFraction' =
                  IF whole >= 1 THEN particleFractionAfter(sum, whole, 0) ELSE sum
           /\ relCalls' =
                  IF releasing
                  THEN Append(relCalls, [count |-> whole, released |-> 0,
                                         slot |-> first, attempts |-> 1, wait |-> d,
                                         failed |-> FALSE])
                  ELSE relCalls
           /\ updCalls' =
                  IF updating
                  THEN Append(updCalls, [particles |-> snapshot, wait |-> d,
                                         failed |-> FALSE])
                  ELSE updCalls
           /\ hyLoading' = IF releasing \/ updating
                           THEN LoadingAfterLookup(d) ELSE hyLoading
           /\ hyWaiters' = WaitersAfterLookups(d, (IF releasing THEN 1 ELSE 0)
                                                  + (IF updating THEN 1 ELSE 0))
           /\ hyLast' = IF releasing \/ updating
                        THEN LoadOp("request", d, hyActive, 0, 0) ELSE hyLast
           /\ requested' = requested + (IF whole >= 1 THEN whole ELSE 0)
    /\ hyFetches' = FetchesAfter(hyFetches, hyLoading, hyLoading')
    /\ UNCHANGED <<schedVars, ekeVars, hyLoaded, hyActive, hyReturned,
                   isRunning, totalReleased, active, last, motionVars,
                   simulationStartTime>>

\* releaseParticles resumed after isOcean / findNearestOceanCell for its
\* slot: the draw is accepted (ocean) or not.  Accepted, the slot is
\* activated and the for-loop goes on to the next inactive slot, or ends
\* and adds released to stats.totalReleased.  Not accepted, the do-while
\* draws again, or returns once attempts exceeds MAX_ATTEMPTS.  When the
\* day's load was rejected, isOcean has caught the error and returned false.
ReleaseResume(i, ocean) ==
    /\ i \in 1..Len(relCalls)
    /\ Runnable(relCalls[i])
    /\ relCalls[i].failed => ~ocean
    /\ LET call == relCalls[i]
           d == simulationDayToDate(simTicks)
           act == [active EXCEPT ![call.slot] = TRUE]
           next == IF call.released + 1 < call.count
                   THEN NextInactive(act, call.slot) ELSE 0
       IN  IF ocean
           THEN /\ active' = act
                /\ IF next # 0
                   THEN /\ relCalls' = [relCalls EXCEPT ![i] =
                               [call EXCEPT !.released = @ + 1, !.slot = next,
                                            !.attempts = 1, !.wait = d,
                                            !.failed = FALSE]]
                        /\ hyLoading' = LoadingAfterLookup(d)
                        /\ hyWaiters' = WaitersAfterLookups(d, 1)
                        /\ hyLast' = LoadOp("request", d, hyActive, 0, 0)
                        /\ UNCHANGED totalReleased
                   ELSE /\ relCalls' = RemoveAt(relCalls, i)
                        /\ totalReleased' = totalReleased + call.released + 1
                        /\ UNCHANGED <<hyLoading, hyWaiters, hyLast>>
           ELSE /\ UNCHANGED <<active, totalReleased>>
                /\ IF call.attempts + 1 > MAX_ATTEMPTS
                   THEN /\ relCalls' = RemoveAt(relCalls, i)
                        /\ UNCHANGED <<hyLoading, hyWaiters, hyLast>>
                   ELSE /\ relCalls' = [relCalls EXCEPT ![i] =
                               [call EXCEPT !.attempts = @ + 1, !.wait = d,
                                            !.failed = FALSE]]
                        /\ hyLoading' = LoadingAfterLookup(d)
                        /\ hyWaiters' = WaitersAfterLookups(d, 1)
                        /\ hyLast' = LoadOp("request", d, hyActive, 0, 0)
    /\ hyFetches' = FetchesAfter(hyFetches, hyLoading, hyLoading')
    /\ UNCHANGED <<schedVars, ekeVars, hyLoaded, hyActive, hyReturned, isRunning,
                   simTicks, particleFraction, requested, last, updCalls,
                   motionVars, clockVars>>

\* updateParticles resumed after getVelocitiesForGroup: every further
\* lookup is on the same day, so the loop over the snapshot runs to its end
UpdateResume(j) ==
    /\ j \in 1..Len(updCalls)
    /\ Runnable(updCalls[j])
    /\ ~updCalls[j].failed
    /\ updCalls' = RemoveAt(updCalls, j)
    /\ UNCHANGED <<schedVars, hyVars, ekeVars, relVars, relCalls, motionVars>>

\* updateParticles resumed after a lookup whose load was rejected:
\* getVelocitiesForGroup and getVelocityAt have caught the error and
\* returned found: false, isOcean false, checkLandInteraction true.  The
\* loop goes on; it ends (more = FALSE: that was the last lookup of the
\* snapshot's last particle) or awaits its next lookup of the day.
UpdateResumeFailed(j, more) ==
    /\ j \in 1..Len(updCalls)
    /\ updCalls[j].failed
    /\ LET d == updCalls[j].wait
       IN  IF more
           THEN /\ updCalls' = [updCalls EXCEPT ![j].failed = FALSE]
                /\ hyLoading' = LoadingAfterLookup(d)
                /\ hyWaiters' = WaitersAfterLookups(d, 1)
                /\ hyLast' = LoadOp("request", d, hyActive, 0, 0)
           ELSE /\ updCalls' = RemoveAt(updCalls, j)
                /\ UNCHANGED <<hyLoading, hyWaiters, hyLast>>
    /\ hyFetches' = FetchesAfter(hyFetches, hyLoading, hyLoading')
    /\ UNCHANGED <<schedVars, ekeVars, hyLoaded, hyActive, hyReturned, relVars,
                   relCalls, motionVars>>

\* the fetch of a day completes: loadDayByDate after its await
FetchComplete(d) ==
    /\ NoRunnable
    /\ HyLoadComplete(d)

\* the calls awaiting day d, their await rejected
Rejected(calls, d) ==
    [i \in 1..Len(calls) |->
        IF calls[i].wait = d THEN [calls[i] EXCEPT !.failed = TRUE] ELSE calls[i]]

\* the fetch of a day fails: loadDayByDate rethrows to the lookups awaiting it
FetchFail(d) ==
    /\ NoRunnable
    /\ HyLoadRejected(d)
    /\ relCalls' = Rejected(relCalls, d)
    /\ updCalls' = Rejected(updCalls, d)
    /\ UNCHANGED <<schedVars, ekeVars, relVars, motionVars>>

\* the start button: startSimulation, resumeSimulation or pauseSimulation
StartButton ==
    /\ NoRunnable
    /\ queue = <<>>
    /\ isRunning' = ~isRunning
    /\ simTicks' = IF ~isRunning /\ totalReleased = 0 THEN 0 ELSE simTicks
    /\ currentSimulationTime' = IF ~isRunning /\ totalReleased = 0
                                THEN getTime(simulationStartTime)
                                ELSE currentSimulationTime
    /\ lastOp' = IF isRunning THEN "pause"
                 ELSE IF totalReleased = 0 THEN "start" ELSE "resume"
    /\ requested' = IF ~isRunning /\ totalReleased = 0 THEN 0 ELSE requested
    /\ UNCHANGED <<tracerId, phases, upp, cards, hyVars, ekeVars, particleFraction,
                   totalReleased, active, last, asyncVars, motionVars,
                   simulationStartTime>>

\* the reset button: resetSimulation
ResetButton ==
    /\ NoRunnable
    /\ queue = <<>>
    /\ isRunning' = FALSE
    /\ simTicks' = 0
    /\ currentSimulationTime' = getTime(simulationStartTime)
    /\ totalReleased' = 0
    /\ active' = [i \in Slots |-> FALSE]
    /\ cell' = [i \in Slots |-> 0]
    /\ depth' = [i \in Slots |-> 0]
    /\ particlesOnLand' = 0
    /\ onLand' = {}
    /\ age' = [i \in Slots |-> 0]
    /\ mass' = [i \in Slots |-> 0]
    /\ lastOp' = "reset"
    /\ UNCHANGED <<tracerId, phases, upp, cards, hyVars, ekeVars, particleFraction,
                   requested, last, asyncVars, rawDepth, queue, rk4Enabled,
                   releaseDay, deltaDays, lastLand, simulationStartTime,
                   REFERENCE_LON>>

Next ==
    \/ \E dt \in 1..MaxDelta : Tick(dt)
    \/ \E i \in 1..MaxInFlight, ocean \in BOOLEAN : ReleaseResume(i, ocean)
    \/ \E j \in 1..MaxInFlight : UpdateResume(j)
    \/ \E d \in Days : FetchComplete(d)
    \/ StartButton
    \/ ResetButton

Spec == Init /\ [][Next]_vars

\* a run whose day loads may fail
FailureNext ==
    \/ \E dt \in 1..MaxDelta : Tick(dt)
    \/ \E i \in 1..MaxInFlight, ocean \in BOOLEAN : ReleaseResume(i, ocean)
    \/ \E j \in 1..MaxInFlight : UpdateResume(j)
    \/ \E j \in 1..MaxInFlight, more \in BOOLEAN : UpdateResumeFailed(j, more)
    \/ \E d \in Days : FetchComplete(d)
    \/ \E d \in Days : FetchFail(d)
    \/ StartButton

SpecFailure == Init /\ [][FailureNext]_vars

\* runs of the default schedule with the day's data resident, and the reset
\* button between them
ResetNext ==
    \/ StartSimulation
    \/ \E dt \in 1..MaxDelta, k \in 0..Capacity : UpdateResident(dt, k)
    \/ ResetButton

SpecReset == ReleaseInit /\ [][ResetNext]_vars

\* ------------------------------------------------------------------------
\* ParticleEngine3D.updateParticles: advection, diffusion, the land check
\* and vertical motion, on a strip of grid cells across the shore, with the
\* day's data resident
\* ------------------------------------------------------------------------
Cells == 0..MaxCell
Max(a, b) == IF a > b THEN a ELSE b
\* findNearestCell: a position beyond the grid has the edge cell nearest
Clip(x) == Max(0, Min(x, MaxCell))

\* metadata.depths: the depth layers of the velocity arrays, in depth units;
\* the clamp's 1.0 km is MaxDepth units
LayerDepths == <<0, 1, MaxDepth>>

\* getDepthIndex, its loop from layer i on: the closest layer so far is
\* replaced by a strictly closer one
RECURSIVE closestIndex(_, _, _)
closestIndex(d, i, closest) ==
    IF i > Len(LayerDepths) THEN closest
    ELSE closestIndex(d, i + 1,
             IF Abs(d - LayerDepths[i]) < Abs(d - LayerDepths[closest])
             THEN i ELSE closest)

\* getDepthIndex: the layer of the exact depth, or else the closest layer,
\* the shallower one on a tie
getDepthIndex(d) ==
    IF \E i \in 1..Len(LayerDepths) : LayerDepths[i] = d
    THEN CHOOSE i \in 1..Len(LayerDepths) :
             LayerDepths[i] = d /\ \A j \in 1..(i - 1) : LayerDepths[j] # d
    ELSE closestIndex(d, 2, 1)

\* the day's uArray holds a velocity at layer l of cell c: the sea bed falls
\* away from the shore, cell 0 is land at every layer, and the deepest layer
\* lies below the sea bed on the whole strip
OceanCell(l, c) == c \in Cells /\ c >= l /\ l < Len(LayerDepths)

\* StreamingHYCOMLoader_3D.isOcean, at a depth in depth units
isOcean(c, d) == OceanCell(getDepthIndex(d), c)

\* landSettings.maxLandSearchRadius, in cells
maxLandSearchRadius == 10

\* findNearestOceanCell: the cell itself, or the first ocean cell of the
\* depth's layer on the rings of growing radius, lower index first
findNearestOceanCell(c, d) ==
    LET l == getDepthIndex(d)
        cand == {q \in Cells : OceanCell(l, q) /\ Abs(q - c) <= maxLandSearchRadius}
    IN  IF cand = {} THEN null
        ELSE CHOOSE q \in cand :
                 \A r \in cand : \/ Abs(q - c) < Abs(r - c)
                                 \/ Abs(q - c) = Abs(r - c) /\ q <= r

\* _checkPathToOcean(start, end, depth, day, 5): isOcean at the five points
\* of the segment; the points lie in the start cell and then in the end
\* cell, or (near: the start is by the cells' border) all in the end cell.  The first point not in the ocean
\* makes the path unsafe, and the last valid point is in the start cell.
checkPathToOcean(start, end, d, near) ==
    IF start = end THEN [safe |-> isOcean(start, d), lastValid |-> start]
    ELSE IF ~near /\ ~isOcean(start, d) THEN [safe |-> FALSE, lastValid |-> start]
    ELSE IF ~isOcean(end, d) THEN [safe |-> FALSE, lastValid |-> start]
    ELSE [safe |-> TRUE, lastValid |-> end]

\* groupParticlesByDepth and the loops of updateParticles: the snapshot by
\* depth layer, and in pool order within a layer
RECURSIVE LoopOrder(_)
LoopOrder(S) ==
    IF S = {} THEN <<>>
    ELSE LET key(i) == getDepthIndex(depth[i]) * (Capacity + 1) + i
             m == CHOOSE i \in S : \A j \in S : key(i) <= key(j)
         IN  <<m>> \o LoopOrder(S \ {m})

\* params.verticalMixing
verticalMixing == TRUE

\* applyVerticalMotion: the depth after a displacement of dz (the random
\* draw, the settling and the pumping together), clamped to [0, 1.0 km]
applyVerticalMotion_NoClamp(d, dz) == d + dz
applyVerticalMotion(d, dz) == Max(0, Min(d + dz, MaxDepth))

\* the vertical displacements of a step: none, one unit, or past either end
DzChoices == {0 - (MaxDepth + 1), -1, 0, 1, MaxDepth + 1}

\* enableRK4, before a run
EnableRK4(b) ==
    /\ ~isRunning
    /\ queue = <<>>
    /\ rk4Enabled' = b
    /\ UNCHANGED <<schedVars, hyVars, ekeVars, relVars, asyncVars, cell, depth,
                   particlesOnLand, onLand, rawDepth, queue, age, releaseDay,
                   mass, deltaDays, lastLand, REFERENCE_LON>>

\* update(): the clock, the release and the start of updateParticles.
\* releaseParticles puts the particles it activates at depth 0 on a cell rc
\* that isOcean accepts at the surface, with age 0, the unit mass and the
\* clock as release day; updateParticles returns if its
\* snapshot of the active particles is empty, else zeroes
\* stats.particlesOnLand and loops over the snapshot.
StepResident(dt, k, rc) ==
    /\ queue = <<>>
    /\ isOcean(rc, 0)
    /\ ReleaseStep(dt, k)
    /\ LET snapshot == {i \in Slots : active[i]}
       IN  /\ queue' = LoopOrder(snapshot)
           /\ particlesOnLand' = IF snapshot = {} THEN particlesOnLand ELSE 0
           /\ onLand' = IF snapshot = {} THEN onLand ELSE {}
    /\ cell' = [i \in Slots |-> IF active'[i] /\ ~active[i]
                                THEN rc - REFERENCE_LON ELSE cell[i]]
    /\ depth' = [i \in Slots |-> IF active'[i] /\ ~active[i] THEN 0 ELSE depth[i]]
    /\ age' = [i \in Slots |-> IF active'[i] /\ ~active[i] THEN 0 ELSE age[i]]
    /\ mass' = [i \in Slots |-> IF active'[i] /\ ~active[i] THEN 0 ELSE mass[i]]
    /\ releaseDay' = [i \in Slots |->
                         IF active'[i] /\ ~active[i] THEN simTicks' ELSE releaseDay[i]]
    /\ deltaDays' = dt
    /\ UNCHANGED <<rawDepth, rk4Enabled, lastLand, REFERENCE_LON>>

\* updateParticles, one turn of its loop, as far as the land check, for a
\* particle at cell prevX and depth prevDepth: advection by u cells (RK4, or
\* Euler if the velocity was found), diffusion by g cells, each with its
\* path check; the land check, which on land reverts to the position before
\* the step and pushes the particle half the way to the nearest ocean cell
\* (near: into the higher cell of two).
\* checkLandInteraction on land: the position before the step, or half the
\* way from it to the ocean cell found (near: into the higher cell of two)
landPosition(prevX, x, oceanCell, near) ==
    IF oceanCell = null \/ oceanCell = prevX THEN prevX
    ELSE IF near THEN (prevX + oceanCell + 1) \div 2
    ELSE (prevX + oceanCell) \div 2

\* updateParticles, the land check's count: stats.particlesOnLand after the
\* turn of a particle
particlesOnLandAfter_NotCounted(n, wasOnLand) == n
particlesOnLandAfter(n, wasOnLand) == IF wasOnLand THEN n + 1 ELSE n

horizontalMove(prevX, prevDepth, u, g, near) ==
    LET found == isOcean(prevX, prevDepth)
        newX == IF found THEN Clip(prevX + u) ELSE prevX
        pathCheck == checkPathToOcean(prevX, newX, prevDepth, near)
        advected == IF rk4Enabled \/ found
                    THEN (IF pathCheck.safe THEN newX ELSE pathCheck.lastValid)
                    ELSE prevX
        diffused == Clip(advected + g)
        diffPathCheck == checkPathToOcean(advected, diffused, prevDepth, near)
        x == IF diffPathCheck.safe THEN diffused ELSE advected
        wasOnLand == ~isOcean(x, prevDepth)
        oceanCell == findNearestOceanCell(x, prevDepth)
        pushed == landPosition(prevX, x, oceanCell, near)
    IN  [x |-> IF wasOnLand THEN pushed ELSE x, wasOnLand |-> wasOnLand,
         checked |-> x, oceanCell |-> oceanCell]

\* TracerLibrary[id].behavior.evaporation
evaporation(id) == id = "lightOil"

\* updateParticles, the mass loss of a turn of its loop: the mass after dt
\* ticks of evaporation
massAfter(m, dt) ==
    IF evaporation(tracerId) /\ TracerType(tracerId) # "radionuclide"
    THEN m + dt ELSE m

\* the longitude of a particle: REFERENCE_LON + p.x / LON_SCALE, as a cell
lonOf(p) == REFERENCE_LON + cell[p]

\* updateParticles, one turn of its loop, for the particle p.  On land the
\* particle keeps the depth it had before the step, is counted, and the
\* loop goes on to the next particle; else vertical motion by dz, ageing
\* and the mass loss follow.
UpdateParticle ==
    /\ queue # <<>>
    /\ LET p == Head(queue)
           prevDepth == depth[p]
           moves == {horizontalMove(lonOf(p), prevDepth, u, g, near) :
                        u \in {-1, 0, 1}, g \in {-1, 0, 1}, near \in BOOLEAN}
       IN  \E move \in moves, dz \in DzChoices :
               /\ cell' = [cell EXCEPT ![p] = move.x - REFERENCE_LON]
               /\ particlesOnLand' =
                      particlesOnLandAfter(particlesOnLand, move.wasOnLand)
               /\ IF move.wasOnLand
                  THEN /\ onLand' = onLand \cup {p}
                       /\ lastLand' = [slot |-> p, x |-> move.checked,
                                       oceanCell |-> move.oceanCell]
                       /\ UNCHANGED <<depth, rawDepth, age, mass>>
                  ELSE /\ age' = [age EXCEPT ![p] = @ + deltaDays]
                       /\ mass' = [mass EXCEPT ![p] = massAfter(@, deltaDays)]
                       /\ depth' = [depth EXCEPT ![p] =
                                       IF verticalMixing
                                       THEN applyVerticalMotion(prevDepth, dz)
                                       ELSE prevDepth]
                       /\ rawDepth' = IF verticalMixing
                                      THEN [slot |-> p, raw |-> prevDepth + dz]
                                      ELSE rawDepth
                       /\ UNCHANGED <<onLand, lastLand>>
    /\ queue' = Tail(queue)
    /\ UNCHANGED <<schedVars, hyVars, ekeVars, relVars, asyncVars, rk4Enabled,
                   releaseDay, deltaDays, REFERENCE_LON>>

\* the schedule of a run whose particles are followed: Capacity particles
\* over two days
MotionSchedule == <<ReleasePhase(0, 2, 2 * Capacity, "GBq")>>

\* new ParticleEngine3D, setReleasePhases(MotionSchedule), init()
MotionInit ==
    /\ tracerId = "cs137"
    /\ phases = MotionSchedule
    /\ upp = calculateParticleCalibration(MotionSchedule)
    /\ cards = <<NewCard>>
    /\ lastOp = "setReleasePhases"
    /\ HycomInit
    /\ EkeInit
    /\ EngineInit

\* A run with resident data: the RK4 switch, the start, and the steps with
\* their particle updates.
MotionNext ==
    \/ StartSimulation
    \/ \E b \in BOOLEAN : EnableRK4(b)
    \/ \E dt \in 1..MaxDelta, k \in 0..Capacity, rc \in Cells : StepResident(dt, k, rc)
    \/ UpdateParticle

SpecMotion == MotionInit /\ [][MotionNext]_vars

\* the schedule of a run of the evaporating tracer: Capacity particles over
\* two days
OilSchedule == <<ReleasePhase(0, 2, 2 * Capacity, "kg")>>

\* new ParticleEngine3D, setTracer('lightOil'), setReleasePhases(OilSchedule),
\* init()
OilInit ==
    /\ tracerId = "lightOil"
    /\ phases = OilSchedule
    /\ upp = calculateParticleCalibration(OilSchedule)
    /\ cards = <<NewCard>>
    /\ lastOp = "setReleasePhases"
    /\ HycomInit
    /\ EkeInit
    /\ EngineInit

SpecOil == OilInit /\ [][MotionNext]_vars

\* the schedules a caller hands to setReleasePhases
PhaseLists ==
    {<<ReleasePhase(s, e, t, u)>> :
        s \in StartChoices, e \in EndChoices, t \in TotalChoices, u \in ApiUnits}
    \cup {<<ReleasePhase(0, 1, 2, "GBq"), ReleasePhase(s, 2, 2, u)>> :
        s \in StartChoices, u \in ApiUnits}

\* The manager and the engine driven through their own interface.
SchedNext ==
    \/ \E s \in StartChoices, e \in EndChoices, t \in TotalChoices, u \in ApiUnits :
           AddPhase(s, e, t, u)
    \/ \E i \in 1..MaxPhases : RemovePhase(i)
    \/ \E ps \in PhaseLists : SetReleasePhases(ps)
    \/ \E id \in Tracers : SetTracer(id)

ScheduleInit == SchedInit /\ HycomInit /\ EkeInit /\ EngineInit
SpecSchedule == ScheduleInit /\ [][SchedNext]_vars

\* the schedules handed to setReleasePhases while the editor is in use
EditorLists ==
    {<<ReleasePhase(0, 1, t, u)>> : t \in TotalChoices, u \in ApiUnits}

\* The engine driven from the control surface, and through setTracer and
\* setReleasePhases.
EditorNext ==
    \/ \E i \in 1..MaxCards, v \in CardStarts : EditCard(i, "start", v)
    \/ \E i \in 1..MaxCards, v \in CardEnds : EditCard(i, "end", v)
    \/ \E i \in 1..MaxCards, v \in CardTotals : EditCard(i, "total", v)
    \/ \E i \in 1..MaxCards, v \in CardUnits : EditCard(i, "unit", v)
    \/ AddCard
    \/ \E i \in 1..MaxCards : RemoveCard(i)
    \/ InitialSync
    \/ \E id \in Tracers : SelectTracer(id)
    \/ \E id \in Tracers : SetTracer(id)
    \/ \E ps \in EditorLists : SetReleasePhases(ps)

SpecEditor == ScheduleInit /\ [][EditorNext]_vars

\* ------------------------------------------------------------------------
\* Properties of the schedule
\* ------------------------------------------------------------------------
Total == getTotalRelease(phases)

\* C7: after any sequence of addPhase, removePhase and setReleasePhases the
\* phases are sorted by start day, pairwise non-overlapping (a phase ends no
\* later than the next one starts), and each has end > start and total > 0.
C7_ScheduleValid ==
    /\ \A i \in 1..Len(phases) : phases[i].end > phases[i].start /\ phases[i].total > 0
    /\ \A i \in 1..Len(phases), j \in 1..Len(phases) :
           i < j => /\ phases[i].start <= phases[j].start
                    /\ phases[i].end <= phases[j].start

\* C8, as stated: whenever the total release is positive, UNITS_PER_PARTICLE
\* is the schedule's total in base units divided by the pool capacity.
C8_AlwaysCalibrated ==
    Total > 0 => upp = RNorm(Total, Capacity)

CalibratingOps == {"new", "setReleasePhases", "setTracer", "selectTracer"}

\* C8, amended: right after the constructor, setReleasePhases, setTracer or
\* a tracer selection, with a positive total, UNITS_PER_PARTICLE is the
\* schedule's total in base units divided by the pool capacity; a sync of
\* the phase editor replaces the phases by the cards and leaves
\* UNITS_PER_PARTICLE as it was.
C8_CalibratedByCalibratingOps ==
    /\ [](lastOp \in CalibratingOps /\ Total > 0 => upp = RNorm(Total, Capacity))
    /\ [][lastOp' = "sync" => upp' = upp /\ phases' = cards']_vars

\* C8: a sync has left a schedule with a positive total whose
\* UNITS_PER_PARTICLE is not total / capacity.
C8_StaleAfterSync ==
    /\ lastOp = "sync"
    /\ Total > 0
    /\ upp # RNorm(Total, Capacity)

\* The loaders, each with the schedule and the other loader at rest.
LoaderInit == SchedInit /\ tracerId = "cs137" /\ HycomInit /\ EkeInit /\ EngineInit
SpecHycom == LoaderInit /\ [][HycomNext]_vars
SpecEke == LoaderInit /\ [][EkeNext]_vars

\* ------------------------------------------------------------------------
\* Properties of the day caches
\* ------------------------------------------------------------------------
\* C9: each loader's resident set holds at most 3 day bundles.
C9_CacheBound ==
    /\ Len(hyLoaded) <= DefaultMaxDays
    /\ Len(ekeLoaded) <= DefaultMaxDays

\* The day loads of the two loaders: requests, and the settling of the
\* fetches.  The loaders share no state: a run drives one of them, the
\* other staying as its init() left it.
LoadersNext ==
    \/ /\ EkeInit
       /\ \/ \E d \in Days : HyLoadDayByDate(d)
          \/ \E d \in Days : HyLoadComplete(d)
          \/ \E d \in Days : HyLoadFail(d)
          \/ \E sd \in Days : HyPreloadAdjacentDays(sd)
    \/ /\ HycomInit
       /\ \/ \E d \in Days : EkeLoadDay(d)
          \/ \E d \in Days : EkeLoadComplete(d)
          \/ \E d \in Days : EkeLoadFail(d)
SpecLoaders == LoaderInit /\ [][LoadersNext]_vars

\* C11: of each day's file, in either loader, at most one fetch is in flight.
C11_LoadDeduplicated ==
    \A d \in Days : hyFetches[d] <= 1 /\ ekeFetches[d] <= 1

\* C12: right after the load of a day has failed, in either loader, the day
\* is neither in loadingPromises nor in loadedDays, the active key is what
\* it was, and every caller that awaited the load got the error; a request
\* for the day that comes next starts a fetch.
C12_FailureLeavesNoTrace ==
    /\ [](hyLast.op = "failed" =>
            /\ hyLast.day \notin hyLoading
            /\ hyLast.day \notin Range(hyLoaded)
            /\ hyActive = hyLast.active
            /\ hyLast.waiters >= 1 /\ hyLast.errors = hyLast.waiters)
    /\ [](ekeLast.op = "failed" =>
            /\ ekeLast.day \notin ekeLoading
            /\ ekeLast.day \notin Range(ekeLoaded)
            /\ ekeActive = ekeLast.active
            /\ ekeLast.waiters >= 1 /\ ekeLast.errors = ekeLast.waiters)
    /\ [][hyLast.op = "failed" /\ hyLast' = LoadOp("request", hyLast.day, hyActive, 0, 0)
             => /\ hyLast.day \in hyLoading'
                /\ hyFetches'[hyLast.day] = hyFetches[hyLast.day] + 1]_vars
    /\ [][ekeLast.op = "failed" /\ ekeLast' = LoadOp("request", ekeLast.day, ekeActive, 0, 0)
             => /\ ekeLast.day \in ekeLoading'
                /\ ekeFetches'[ekeLast.day] = ekeFetches[ekeLast.day] + 1]_vars

\* C12: a load that two callers awaited has failed, with another day
\* resident and active.
C12_SharedLoadFailed ==
    /\ hyLast.op = "failed"
    /\ hyLast.waiters = 2
    /\ hyActive # null

\* C13: when the load of a day a step's lookups await fails during a run,
\* the run halts: isRunning is false after the failure.
C13_LoadErrorHaltsRun ==
    [][isRunning /\ hyLast'.op = "failed" /\ hyLast'.waiters >= 1
         /\ (\E j \in 1..Len(updCalls') : updCalls'[j].failed)
       => ~isRunning']_vars

\* C14: stats.simulationDays never decreases except by resetSimulation: a
\* start, pause, resume or update leaves it as it was or advances it.
C14_ClockNeverDecreases ==
    [][simTicks' < simTicks => lastOp' = "reset"]_vars

\* C15: with every step completed, a pause followed by the start control
\* leaves the simulation day, the statistics, the accumulator and the pool
\* as they were, so that the steps after it go on as in a run without the
\* pause.
C15_PauseResumeTransparent ==
    [][/\ lastOp = "pause" /\ lastOp' \in {"start", "resume"}
       /\ relCalls = <<>> /\ updCalls = <<>>
       => /\ simTicks' = simTicks
          /\ totalReleased' = totalReleased
          /\ particleFraction' = particleFraction
          /\ active' = active]_vars

\* C16: after resetSimulation the clock is at 0, the run is stopped, every
\* slot is inactive, and the statistics and the fractional accumulator are
\* those of a new engine.
C16_ResetRestoresFreshEngine ==
    lastOp = "reset" =>
        /\ simTicks = 0
        /\ ~isRunning
        /\ totalReleased = 0
        /\ \A p \in Slots : ~active[p]
        /\ particleFraction = RInt(0)

\* C17: the pool after a given sequence of steps and draws does not depend
\* on when the day loads complete.  With the data resident a run whose
\* requested particles were all released has activated one slot for each,
\* in pool order; so has every run, whenever its loads completed.
C17_ScheduleIndependent ==
    relCalls = <<>> /\ updCalls = <<>> /\ totalReleased = requested =>
        \A p \in Slots : active[p] <=> p <= requested

\* C10: the day whose bundle a lookup returned last is the loader's active
\* day and is resident.
C10_LastReturnedPinned ==
    /\ hyReturned # null => hyActive = hyReturned /\ hyReturned \in Range(hyLoaded)
    /\ ekeReturned # null => ekeActive = ekeReturned /\ ekeReturned \in Range(ekeLoaded)

\* ------------------------------------------------------------------------
\* Properties of the continuous release
\* ------------------------------------------------------------------------
\* C5: with one phase whose total is capacity x UNITS_PER_PARTICLE in base
\* units, in any unit of the table, and the schedule untouched since the
\* start, when a step lands on the phase's end the counts requested since
\* the start sum to the pool capacity and the accumulator is below 1.
C5_ReleaseConservation ==
    (/\ lastOp = "start"
     /\ Len(phases) = 1
     /\ Total > 0
     /\ upp = RNorm(Total, Capacity)
     /\ simTicks = phases[1].end * TicksPerDay)
    => /\ requested = Capacity
       /\ RLess(particleFraction, RInt(1))

\* the last step asked for more particles than the pool had inactive slots
PoolShort == last.whole >= 1 /\ last.free < last.whole

\* C6, as stated: when the pool could not serve the request and every
\* inactive slot was activated, the accumulator after the step is
\* accumulator_before + rate*dt/units_per_particle - (the number of
\* particles activated).
C6_AccumulatorRetainsUnreleased ==
    PoolShort /\ last.released = last.free =>
        particleFraction = RSub(RAdd(last.accBefore, last.inc), RInt(last.released))

\* C6, amended: when the pool could not serve the request, at most the
\* inactive slots are activated, and the accumulator after the step is
\* accumulator_before + rate*dt/units_per_particle - (the count requested),
\* the fractional part alone: the particles not activated are dropped.
C6_UnservedRequestDropped ==
    PoolShort =>
        /\ last.released <= last.free
        /\ particleFraction = RSub(RAdd(last.accBefore, last.inc), RInt(last.whole))
        /\ last.whole = RFloor(RAdd(last.accBefore, last.inc))
        /\ RLess(particleFraction, RInt(1))

\* C6: a step whose request found the pool with too few inactive slots,
\* all of which were activated.
C6_PoolExhausted ==
    PoolShort /\ last.released = last.free /\ \A i \in Slots : active[i]

\* ------------------------------------------------------------------------
\* Properties of the stepping engine
\* ------------------------------------------------------------------------
\* stats.totalDecayed: set to 0 by the constructor and by resetSimulation and
\* written nowhere else
totalDecayed == 0

\* C1: a step begins (the clock advances) only when no releaseParticles and
\* no updateParticles of an earlier step is still in progress.
C1_StepsAtomic ==
    [][simTicks' > simTicks => relCalls = <<>> /\ updCalls = <<>>]_vars

\* C2: whenever no release and no update is in progress, stats.totalReleased
\* is the number of active slots plus stats.totalDecayed (nothing retires a
\* particle as stuck).
C2_CountConserved ==
    relCalls = <<>> /\ updCalls = <<>> =>
        totalReleased = Cardinality({i \in Slots : active[i]}) + totalDecayed

\* ------------------------------------------------------------------------
\* Properties of the particles' positions
\* ------------------------------------------------------------------------
\* C3: when a step has completed, every active particle is counted in
\* stats.particlesOnLand for that step or isOcean holds of its cell at its
\* current depth's layer.
C3_PositionValid ==
    queue = <<>> =>
        \A p \in Slots : active[p] => p \in onLand \/ isOcean(cell[p], depth[p])

\* C4: every active particle has 0 <= depth <= 1.0 km (MaxDepth units).
C4_DepthClamped ==
    \A p \in Slots : active[p] => depth[p] >= 0 /\ depth[p] <= MaxDepth

\* C4: vertical motion computed a depth past the lower limit for an active
\* particle, which the clamp has left at the limit.
C4_ClampActed ==
    \E p \in Slots :
        /\ active[p]
        /\ rawDepth.slot = p
        /\ rawDepth.raw > MaxDepth
        /\ depth[p] = MaxDepth

\* C18: when a step has completed, the age of every active particle is the
\* time on the clock since its release day.
C18_AgeTracksClock ==
    queue = <<>> =>
        \A p \in Slots : active[p] => age[p] = simTicks - releaseDay[p]

\* C19: when a step has completed, no active particle has a mass below the
\* floor of 0.001 of the unit: the step that took it below retired it.
C19_NoActiveBelowFloor ==
    queue = <<>> =>
        \A p \in Slots : active[p] => mass[p] < FloorTicks

\* C20: a slot that a call of releaseParticles activates was inactive until
\* then, whatever other calls are in flight: the step in which call i
\* counts one more released particle, or ends and adds its count to
\* stats.totalReleased, finds the call's slot inactive.
C20_NoDoubleActivation ==
    [][\A i \in 1..Len(relCalls) :
          \/ /\ Len(relCalls') = Len(relCalls)
             /\ relCalls'[i].released > relCalls[i].released
          \/ /\ relCalls' = RemoveAt(relCalls, i)
             /\ totalReleased' > totalReleased
          => ~active[relCalls[i].slot]]_vars

\* C21: while the engine is stopped no slot's active flag and no count of
\* released particles changes, except by resetSimulation, which clears them:
\* a step between two stopped states leaves them as they were.
C21_StoppedEngineQuiescent ==
    [][~isRunning /\ ~isRunning' =>
          \/ active' = active /\ totalReleased' = totalReleased
          \/ totalReleased' = 0 /\ \A p \in Slots : ~active'[p]]_vars

\* C22: the turn of updateParticles that finds a particle on land, with no
\* ocean cell within maxLandSearchRadius of the cell it had moved to,
\* leaves the particle's cell and depth as they were before the step, leaves
\* it active, and adds one to stats.particlesOnLand.
C22_StuckOnLandFreezes ==
    [][\A p \in Slots :
          /\ queue # <<>> /\ Head(queue) = p /\ queue' = Tail(queue)
          /\ p \in onLand' /\ p \notin onLand
          /\ lastLand'.slot = p /\ lastLand'.oceanCell = null
          => /\ cell'[p] = cell[p]
             /\ depth'[p] = depth[p]
             /\ active'[p]
             /\ particlesOnLand' = particlesOnLand + 1]_vars

\* C22: a particle was found on land and the search for an ocean cell at
\* its depth returned null.
C22_StuckOnLand ==
    /\ lastLand.slot \in onLand
    /\ active[lastLand.slot]
    /\ ~isOcean(lastLand.x, depth[lastLand.slot])
    /\ lastLand.oceanCell = null

\* ------------------------------------------------------------------------
\* StreamingHYCOMLoader_3D: the lookups in a resident day's arrays
\* ------------------------------------------------------------------------
\* A Float32 read from uArray or vArray: <<>> is NaN, <<n>> the number n.
NaN == <<>>
Num(n) == <<n>>
isNaN(x) == x = NaN
\* Math.abs(x) > n and Math.abs(x) < n; a comparison with NaN is false
AbsAbove(x, n) == ~isNaN(x) /\ Abs(x[1]) > n
AbsBelow(x, n) == ~isNaN(x) /\ Abs(x[1]) < n

\* the land sentinel's threshold
LandThreshold == 1000

\* the values an array holds: NaN, the fill value, velocities, and the
\* values about the threshold
FieldValues ==
    {NaN} \cup {Num(n) : n \in {-9999, -1001, -1000, -1, 0, 1, 1000, 1001}}

\* uArray[idx]: a read past the end of a typed array is undefined, which
\* Math.abs and isNaN take as NaN
ArrayRead(x, inBounds) == IF inBounds THEN x ELSE NaN

\* isOcean: false without a cell; else from u alone
isOceanAt(hasCell, inBounds, u) ==
    IF ~hasCell THEN FALSE
    ELSE LET uu == ArrayRead(u, inBounds)
         IN  IF AbsAbove(uu, LandThreshold) THEN FALSE ELSE ~isNaN(uu)

\* getVelocityAt, its found: false without a cell and past the bounds; else
\* from u and v
foundAt(hasCell, inBounds, u, v) ==
    IF ~hasCell THEN FALSE
    ELSE IF ~inBounds THEN FALSE
    ELSE /\ ~isNaN(u) /\ ~isNaN(v)
         /\ AbsBelow(u, LandThreshold) /\ AbsBelow(v, LandThreshold)

\* isOcean and getVelocityAt for one position, depth and day, the day being
\* resident: findNearestCell has a cell or not, the index is within the
\* arrays or not, and the arrays hold u and v there
HyLookup(hasCell, inBounds, u, v) ==
    /\ hyLast' = [op |-> "lookup", hasCell |-> hasCell, inBounds |-> inBounds,
                  u |-> u, v |-> v,
                  isOcean |-> isOceanAt(hasCell, inBounds, u),
                  found |-> foundAt(hasCell, inBounds, u, v)]
    /\ UNCHANGED <<hyLoaded, hyLoading, hyActive, hyReturned, hyFetches, hyWaiters,
                   nonHyVars>>

LookupNext ==
    \E hasCell \in BOOLEAN, inBounds \in BOOLEAN, u \in FieldValues, v \in FieldValues :
        HyLookup(hasCell, inBounds, u, v)

SpecLookup == LoaderInit /\ [][LookupNext]_vars

\* C23: for one position, depth and day, isOcean returns true exactly when
\* getVelocityAt returns found = true.
C23_MaskAgreesWithLookup ==
    hyLast.op = "lookup" => (hyLast.isOcean <=> hyLast.found)

\* the uArray of one depth layer along the strip of cells
LayerValues == {NaN, Num(-9999), Num(0)}
Layers == [Cells -> LayerValues]

\* findNearestOceanCell in a layer's values: the cell itself, or the first
\* cell on the rings of radius 1..maxSearchRadius, lower index first, whose u
\* is not NaN
findNearestOceanCellIn(layer, c, maxSearchRadius) ==
    LET cand == {q \in Cells : ~isNaN(layer[q]) /\ Abs(q - c) <= maxSearchRadius}
    IN  IF cand = {} THEN null
        ELSE CHOOSE q \in cand :
                 \A r \in cand : \/ Abs(q - c) < Abs(r - c)
                                 \/ Abs(q - c) = Abs(r - c) /\ q <= r

\* findNearestOceanCell for a position whose nearest cell is c, the day
\* being resident
HyFindNearestOceanCell(layer, c, maxSearchRadius) ==
    /\ hyLast' = [op |-> "nearestOcean", layer |-> layer, cell |-> c,
                  maxSearchRadius |-> maxSearchRadius,
                  result |-> findNearestOceanCellIn(layer, c, maxSearchRadius)]
    /\ UNCHANGED <<hyLoaded, hyLoading, hyActive, hyReturned, hyFetches, hyWaiters,
                   nonHyVars>>

NearestNext ==
    \E layer \in Layers, c \in Cells, r \in 1..MaxCell :
        HyFindNearestOceanCell(layer, c, r)

SpecNearest == LoaderInit /\ [][NearestNext]_vars

\* C24: the cell findNearestOceanCell returns is an ocean cell: its u is
\* not NaN and not beyond the land threshold.
C24_NeverReturnsLand ==
    hyLast.op = "nearestOcean" /\ hyLast.result # null =>
        /\ ~isNaN(hyLast.layer[hyLast.result])
        /\ ~AbsAbove(hyLast.layer[hyLast.result], LandThreshold)

\* ------------------------------------------------------------------------
\* The times and days of the lookups of a step
\* ------------------------------------------------------------------------
\* rk4Integrate: the number of substeps, Math.ceil(deltaDays / h), h being
\* the particle's calculateOptimalStepSize
RK4Steps == {1, 2}

\* rk4Integrate and rk4Step: the times of the getVelocityAt calls of a turn
\* with s substeps, in quarters of a tick: for each substep its stepTime,
\* stepTime + h/2 and stepTime + h
rk4SampleTimes(t, dt, s) ==
    LET h == (4 * dt) \div s
    IN  UNION {{4 * t + k * h, 4 * t + k * h + h \div 2, 4 * t + k * h + h} :
                  k \in 0..(s - 1)}

\* updateParticles: the times of the lookups of a particle's turn, in
\* quarters of a tick: currentSimDay for getVelocitiesForGroup, the path
\* checks, applyDiffusion and checkLandInteraction; the RK4 samples when RK4
\* is enabled
lookupTimes(t, dt, rk4, s) ==
    {4 * t} \cup (IF rk4 THEN rk4SampleTimes(t, dt, s) ELSE {})

\* simulationDayToDate, of a time in quarters of a tick
dayOfTime(q) == q \div (4 * TicksPerDay)

\* C25: during a step, every lookup made for a particle is for one and the
\* same day, however many substeps RK4 takes.
C25_OneDayPerStep ==
    queue # <<>> =>
        \A s \in RK4Steps :
            Cardinality({dayOfTime(q) :
                            q \in lookupTimes(simTicks, deltaDays, rk4Enabled, s)}) = 1


\* ------------------------------------------------------------------------
\* The diffusivity lookup of a step
\* ------------------------------------------------------------------------
\* A calendar date is counted in days from 2011-03-11 (UTC).  The keys of
\* loadedDays and of the daily files are YYYYMMDD strings; particleEngine
\* hands getDiffusivityAt its clock, a number of days (here in ticks).
DateKey(date) == [kind |-> "YYYYMMDD", value |-> date]
NumberKey(t) == [kind |-> "number", value |-> t]
\* dateKey = null, the default of the parameter
NoKey == [kind |-> "none", value |-> 0]
\* metadata.dates: the days of the archive that have a file
DateLists == SUBSET Days \ {{}}
\* the local calendar date at 2011-03-11T00:00:00Z, relative to the UTC date:
\* the day before in a time zone west of Greenwich
TimeZones == {-1, 0}
SetMin(S) == CHOOSE m \in S : \A k \in S : m <= k
SetMax(S) == CHOOSE m \in S : \A k \in S : m >= k

\* getDateFromSimulationDay(simulationDay): setDate / getDate work on the
\* local calendar
getDateFromSimulationDay(t, dates, tz) ==
    LET date == tz + (t \div TicksPerDay)
        later == {k \in dates : k >= date}
    IN  IF dates = {} THEN DateKey(date)
        ELSE IF date \in dates THEN DateKey(date)
        ELSE IF later # {} THEN DateKey(SetMin(later))
        ELSE DateKey(SetMax(dates))

\* getDiffusivityAt(lon, lat, dateKey): the key handed to loadDay
diffusivityKey(dateKey, activeDate, dates) ==
    LET falsy == dateKey.kind = "none" \/ dateKey = NumberKey(0)
    IN  IF falsy /\ activeDate # null THEN DateKey(activeDate)
        ELSE IF falsy THEN DateKey(SetMin(dates))
        ELSE dateKey

\* applyDiffusion(p, deltaDays, currentSimDay):
\*   ekeLoader.getDiffusivityAt(lon, lat, currentSimDay)
ApplyDiffusionLookup(t, dates, tz) ==
    /\ ekeLast' = [op |-> "diffusivity", simTicks |-> t, dates |-> dates, tz |-> tz,
                   requested |-> diffusivityKey(NumberKey(t), ekeActive, dates),
                   clamped |-> getDateFromSimulationDay(t, dates, tz)]
    /\ UNCHANGED <<ekeLoaded, ekeLoading, ekeActive, ekeReturned, ekeFetches,
                   ekeWaiters, nonEkeVars>>

DiffusivityNext ==
    \E t \in 1..MaxTicks, dates \in DateLists, tz \in TimeZones :
        ApplyDiffusionLookup(t, dates, tz)

SpecDiffusivity == LoaderInit /\ [][DiffusivityNext]_vars

\* C26: the diffusivity lookup of a step on simulation day d asks for the
\* bundle of d's calendar date if it is listed, else of the smallest listed
\* date after it, else of the latest listed date.
C26_DiffusivityDateClamp ==
    ekeLast.op = "diffusivity" =>
        LET date == ekeLast.simTicks \div TicksPerDay
            later == {k \in ekeLast.dates : k >= date}
        IN  ekeLast.requested =
                DateKey(IF date \in ekeLast.dates THEN date
                        ELSE IF later # {} THEN SetMin(later)
                        ELSE SetMax(ekeLast.dates))


\* ------------------------------------------------------------------------
\* The calendars of the loaders and of the engine's clock
\* ------------------------------------------------------------------------
\* StreamingHYCOMLoader_3D.baseDate, new Date('2011-03-01T00:00:00Z'), in
\* days from 2011-03-01
baseDate == 0
\* getDateFromSimulationDay's startDate, new Date('2011-03-11T00:00:00Z')
ekeStartDate == 10
\* the dates the start-date input is set to
StartDates == {baseDate, SimulationStartDate}

\* the calendar date of the bundle getVelocityAt loads for a clock value
hycomDate(t) == baseDate + simulationDayToDate(t)
\* the calendar date getDateFromSimulationDay computes for a clock value
ekeDate(t, tz) == ekeStartDate + getDateFromSimulationDay(t, {}, tz).value

\* setupDateRange's updateDateRange, on a change of the start or end date
UpdateDateRange(startDate) ==
    /\ simulationStartTime' = startDate
    /\ currentSimulationTime' = getTime(startDate)
    /\ UNCHANGED <<schedVars, hyVars, ekeVars, asyncVars, motionVars, isRunning,
                   simTicks, particleFraction, totalReleased, active, requested,
                   last>>

ClockNext ==
    \/ StartButton
    \/ \E dt \in 1..MaxDelta, k \in 0..Capacity : UpdateResident(dt, k)
    \/ ResetButton
    \/ \E startDate \in StartDates : UpdateDateRange(startDate)

SpecClock == ReleaseInit /\ [][ClockNext]_vars

\* C27: on every simulation day of a run, the date of the current-field
\* bundle, the date that picks the diffusivity bundle and the date of the
\* simulation clock are one and the same calendar date.
C27_CalendarsAgree ==
    isRunning =>
        \A tz \in TimeZones :
            /\ hycomDate(simTicks) = ekeDate(simTicks, tz)
            /\ ekeDate(simTicks, tz) = simulationStartTime + simTicks \div TicksPerDay

\* C28: the clock reads the start time plus the simulated days, whatever
\* the sequence of start, update, pause, resume, reset and date changes.
C28_ClockConsistent ==
    currentSimulationTime = getTime(simulationStartTime) + simTicks


\* ------------------------------------------------------------------------
\* The release location
\* ------------------------------------------------------------------------
\* setReleaseLocation(lat, lon), and the location picker's
\* updateLocationDisplay, which writes engine.REFERENCE_LON itself
\* (an input event: with the day's data resident it is handled between two
\* frames, not within the loop of updateParticles)
SetReleaseLocation(lon) ==
    /\ queue = <<>>
    /\ REFERENCE_LON' = lon
    /\ UNCHANGED <<schedVars, hyVars, ekeVars, relVars, asyncVars, cell, depth,
                   particlesOnLand, onLand, rawDepth, queue, rk4Enabled, age,
                   releaseDay, mass, deltaDays, lastLand>>

LocationNext ==
    \/ StartSimulation
    \/ \E dt \in 1..MaxDelta, k \in 0..Capacity, rc \in Cells : StepResident(dt, k, rc)
    \/ UpdateParticle
    \/ \E lon \in Cells : SetReleaseLocation(lon)

SpecLocation == MotionInit /\ [][LocationNext]_vars

\* C29: a change of the release location leaves every active particle at
\* the longitude it had.
C29_LocationChangeKeepsPositions ==
    [][REFERENCE_LON' # REFERENCE_LON =>
          \A p \in Slots : active[p] => REFERENCE_LON' + cell'[p] = lonOf(p)]_vars


\* ------------------------------------------------------------------------
\* The spatial index of the loaders
\* ------------------------------------------------------------------------
\* GRID_SIZE buckets a side; the coordinates of the sampled cells and of the
\* queries are whole degrees within gridBounds, lonMin = latMin = 0 and
\* lonMax = latMax = MaxCoord
GRID_SIZE == 3
MaxCoord == 2
MaxSampled == 2
Coords == 0..MaxCoord
Points == Coords \X Coords
\* the cells buildSpatialIndex samples, as <<lon, lat>> in the order of their
\* linear index
SampledCells == UNION {[1..n -> Points] : n \in 0..MaxSampled}

\* Math.floor((v - min) / (max - min) * (GRID_SIZE - 1))
bucketOf(v) == (v * (GRID_SIZE - 1)) \div MaxCoord
\* Math.max(0, Math.min(GRID_SIZE - 1, g))
clampBucket(g) == Max(0, Min(GRID_SIZE - 1, g))

RECURSIVE IndicesWhere(_, _, _)
IndicesWhere(cells, k, y) ==
    IF k > Len(cells) THEN <<>>
    ELSE (IF bucketOf(cells[k][2]) = y THEN <<k>> ELSE <<>>)
         \o IndicesWhere(cells, k + 1, y)

\* buildSpatialIndex: spatialGrid[y][x] after the build.  Array(GRID_SIZE)
\* .fill([]) puts one and the same array in every column of a row, so a push
\* to spatialGrid[gridY][gridX] shows in every bucket of row gridY
spatialGrid(cells, y, x) == IndicesWhere(cells, 1, y)

\* findNearestCell, its loops over dy, dx and the candidates: the
\* candidates in the order they are compared
RECURSIVE visited(_, _, _, _)
visited(cells, gridX, gridY, n) ==
    IF n = 9 THEN <<>>
    ELSE LET dy == (n \div 3) - 1
             dx == (n % 3) - 1
         IN  spatialGrid(cells, clampBucket(gridY + dy), clampBucket(gridX + dx))
             \o visited(cells, gridX, gridY, n + 1)

\* Math.pow(cellLon - lon, 2) + Math.pow(cellLat - lat, 2)
dist(c, lon, lat) == (c[1] - lon) * (c[1] - lon) + (c[2] - lat) * (c[2] - lat)

\* if (dist < bestDist): the best of the candidates compared so far
RECURSIVE bestOf(_, _, _, _, _)
bestOf(cells, seq, lon, lat, best) ==
    IF seq = <<>> THEN best
    ELSE bestOf(cells, Tail(seq), lon, lat,
                IF best = 0 \/ dist(cells[Head(seq)], lon, lat) < dist(cells[best], lon, lat)
                THEN Head(seq) ELSE best)

\* findNearestCell(lon, lat): the linear index of bestCell, 0 for null
findNearestCell(cells, lon, lat) ==
    bestOf(cells, visited(cells, bucketOf(lon), bucketOf(lat), 0), lon, lat, 0)

\* buildSpatialIndex, over the coordinates of a grid
HyBuildSpatialIndex(cells) ==
    /\ hyLast' = [op |-> "buildSpatialIndex", cells |-> cells]
    /\ UNCHANGED <<hyLoaded, hyLoading, hyActive, hyReturned, hyFetches, hyWaiters,
                   nonHyVars>>

\* findNearestCell(lon, lat, dayData), once the index is built
HyFindNearestCell(lon, lat) ==
    /\ hyLast.op \in {"buildSpatialIndex", "nearestCell"}
    /\ hyLast' = [op |-> "nearestCell", cells |-> hyLast.cells, lon |-> lon,
                  lat |-> lat, result |-> findNearestCell(hyLast.cells, lon, lat)]
    /\ UNCHANGED <<hyLoaded, hyLoading, hyActive, hyReturned, hyFetches, hyWaiters,
                   nonHyVars>>

IndexNext ==
    \/ \E cells \in SampledCells : HyBuildSpatialIndex(cells)
    \/ \E lon \in Coords, lat \in Coords : HyFindNearestCell(lon, lat)

SpecIndex == LoaderInit /\ [][IndexNext]_vars

\* C30: findNearestCell returns the nearest of the sampled cells whose own
\* bucket is in the 3x3 neighbourhood of the query's bucket, the lower
\* linear index on a tie, and null when the neighbourhood holds none.
C30_NearestInNeighbourhood ==
    hyLast.op = "nearestCell" =>
        LET cells == hyLast.cells
            near(g) == {clampBucket(g + d) : d \in {-1, 0, 1}}
            cand == {k \in 1..Len(cells) :
                        /\ bucketOf(cells[k][1]) \in near(bucketOf(hyLast.lon))
                        /\ bucketOf(cells[k][2]) \in near(bucketOf(hyLast.lat))}
            d(k) == dist(cells[k], hyLast.lon, hyLast.lat)
        IN  IF cand = {} THEN hyLast.result = 0
            ELSE /\ hyLast.result \in cand
                 /\ \A k \in cand :
                        \/ d(hyLast.result) < d(k)
                        \/ d(hyLast.result) = d(k) /\ hyLast.result <= k

=============================================================================
